---- MODULE Spec2Model ----
(***************************************************************************)
(* A model of ScalpyrPro (src/src/scalpyr/scalpyrpro.py): the column        *)
(* projection of _send_request, the pager get_events_by / _get_events_by    *)
(* and the venue resolver get_venue_ids, over a transport base class that   *)
(* answers every request with a raw response of its own choosing.           *)
(*                                                                         *)
(* A raw record is a sequence of <<field, value>> pairs (a Python dict      *)
(* keeps its insertion order); a raw response is a function from its keys   *)
(* to their values; a DataFrame is [cols |-> sequence of column names,      *)
(* rows |-> sequence of functions from the columns to values].              *)
(***************************************************************************)
EXTENDS Integers, Sequences, FiniteSets, TLC

VARIABLES
    sg_data_structure,   \* self.sg_data_structure
    op,                  \* the public method this call runs
    pc,                  \* where the call stands
    req_type,            \* argument req_type
    ids,                 \* argument ids (a sequence of id strings)
    arg_per_page,        \* argument per_page as the caller gave it
    event_type,          \* argument event_type (NoneValue when not given)
    per_page,            \* local per_page of get_events_by (reassigned at line 190)
    total_pages,         \* local total_pages
    page_num,            \* local page_num
    events_tables,       \* local events_tables
    resp,                \* local resp / response
    venues,              \* argument *venues
    idx,                 \* position of the for loop of get_venue_ids
    all_venue_data,      \* local all_venue_data
    venue_search_failed, \* local venue_search_failed
    stdout,              \* what print has written
    outcome,             \* "running", "returned" or the exception raised
    exc_arg,             \* the argument the raised exception carries
    result,              \* the value returned
    requests,            \* history: the requests handed to the transport base
    fetched,             \* history: the transport's answers to _send_request and the pager
    searches             \* history: per searched name, how the search ended

vars == <<sg_data_structure, op, pc, req_type, ids, arg_per_page, event_type,
          per_page, total_pages, page_num, events_tables, resp, venues, idx,
          all_venue_data, venue_search_failed, stdout, outcome, exc_arg,
          result, requests, fetched, searches>>

(***************************************************************************)
(* Bounds of the model.                                                     *)
(***************************************************************************)
MaxTotal == 3
MaxPerPage == 2
MaxNames == 2

\* Python's None, and the value of a variable not yet assigned.
NoneValue == <<>>

\* pandas' missing value: a column holds integers, or strings for "name".
NaN(c) == IF c = "name" THEN "NaN" ELSE -1

Range(s) == {s[i] : i \in 1..Len(s)}

RECURSIVE Reverse(_)
Reverse(s) == IF s = <<>> THEN <<>> ELSE Append(Reverse(Tail(s)), Head(s))

(***************************************************************************)
(* SeatGeekDataStructure and the default ScalpyrPro.__init__ builds.        *)
(***************************************************************************)
DefaultDataStructure ==
    [events |-> <<"type", "id", "datetime_utc", "venue", "performers",
                  "short_title", "stats", "url", "score", "announce_date",
                  "status", "access_method", "visible_at">>,
     performers |-> <<"type", "name", "id", "has_upcoming_events", "primary",
                      "url", "score", "slug", "num_upcoming_events">>,
     stats |-> <<"listing_count", "average_price", "median_price",
                 "lowest_price", "highest_price">>,
     venues |-> <<"state", "postal_code", "name", "timezone", "url", "score",
                  "location", "country", "num_upcoming_events", "city", "slug",
                  "id", "access_method", "metro_code", "capacity">>]

\* A structure a caller passes to the constructor instead of the default.
CallerDataStructure ==
    [events |-> <<"id", "type", "score">>,
     performers |-> <<"id", "name">>,
     stats |-> <<"listing_count">>,
     venues |-> <<"num_upcoming_events", "id", "name">>]

DataStructures == {DefaultDataStructure, CallerDataStructure}

(***************************************************************************)
(* The transport base class, Scalpyr._send_request: it answers a request    *)
(* with the decoded body, or raises (a network failure).  The body either   *)
(* holds the requested resource type (a list of raw records) and "meta", or *)
(* is an error payload without it.  The server orders a record's fields its *)
(* own way and sends a field ("links") no column list names.                *)
(***************************************************************************)
\* req_type of a request: the four declared kinds and one the structure
\* does not declare.
RequestTypes == {"events", "performers", "stats", "venues", "taxonomies"}

ServerFields ==
    [kind \in RequestTypes |->
        IF kind \in DOMAIN DefaultDataStructure
        THEN <<"links">> \o Reverse(DefaultDataStructure[kind])
        ELSE <<"links", "id", "name">>]

FieldValue(c, i, n, u) ==
    CASE c = "id" -> i
      [] c = "name" -> n
      [] c = "num_upcoming_events" -> u
      [] OTHER -> 0

\* A record with every field the server has for the kind.
FullRecord(kind, i, n, u) ==
    [j \in 1..Len(ServerFields[kind]) |->
        <<ServerFields[kind][j], FieldValue(ServerFields[kind][j], i, n, u)>>]

\* A record with the id alone: the declared columns are not all there.
BareRecord(i) == << <<"id", i>> >>

\* The record lists the server answers with: none, one or two records, with
\* and without a record that lacks declared fields.
RawRecordLists ==
    [kind \in RequestTypes |->
        LET first == FullRecord(kind, 1, "Garden", 1)
            second == FullRecord(kind, 2, "The Garden", 0)
            bare == BareRecord(4)
        IN  {<<>>, <<first>>, <<second>>, <<second, first>>, <<bare>>,
             <<first, bare>>}]

RECURSIVE SeqsUpTo(_, _)
SeqsUpTo(S, n) ==
    IF n = 0 THEN {<<>>}
    ELSE LET shorter == SeqsUpTo(S, n - 1)
         IN  shorter \cup {Append(s, x) : s \in shorter, x \in S}

\* The meta block of page `page`.  The first response reports any total and
\* any per_page (the server clamps the page size as it likes); a later page
\* of the same query repeats the total and the per_page of the page before.
Metas(page, before) ==
    IF before = NoneValue
    THEN [total : 0..MaxTotal, per_page : 1..MaxPerPage, page : {page}]
    ELSE {[total |-> before.total, per_page |-> before.per_page, page |-> page]}

ErrorPayload == ("error" :> "bad request")

RawResponses(kind, page, before) ==
    {ErrorPayload} \cup
    {(kind :> recs @@ "meta" :> m) :
        recs \in RawRecordLists[kind], m \in Metas(page, before)}

\* What super()._send_request(req_type, req_args, req_id) comes back with.
TransportOutcomes(kind, page, before) ==
    {[raised |-> TRUE, response |-> NoneValue]} \cup
    {[raised |-> FALSE, response |-> r] : r \in RawResponses(kind, page, before)}

(***************************************************************************)
(* pandas, as _send_request and the callers use it.                         *)
(***************************************************************************)
Keys(rec) == [j \in 1..Len(rec) |-> rec[j][1]]

Get(rec, c) == rec[CHOOSE j \in 1..Len(rec) : rec[j][1] = c][2]

\* The elements of s that are not in seen, in order, each once.
RECURSIVE NewOnes(_, _)
NewOnes(s, seen) ==
    IF s = <<>> THEN <<>>
    ELSE IF Head(s) \in seen THEN NewOnes(Tail(s), seen)
    ELSE <<Head(s)>> \o NewOnes(Tail(s), seen \cup {Head(s)})

\* The columns of a list of dicts: every key, in the order of first appearance.
RECURSIVE ColumnsOf(_, _)
ColumnsOf(recs, seen) ==
    IF recs = <<>> THEN <<>>
    ELSE LET new == NewOnes(Keys(Head(recs)), seen)
         IN  new \o ColumnsOf(Tail(recs), seen \cup Range(new))

\* pd.DataFrame.from_dict(list of dicts): a key a record lacks reads NaN.
FromDict(recs) ==
    LET cols == ColumnsOf(recs, {})
    IN  [cols |-> cols,
         rows |-> [r \in 1..Len(recs) |->
                    [c \in Range(cols) |->
                        IF c \in Range(Keys(recs[r])) THEN Get(recs[r], c)
                        ELSE NaN(c)]]]

\* df[columns] raises KeyError unless every listed column is one of df's.
Selectable(df, columns) == Range(columns) \subseteq Range(df.cols)

\* The table left as from_dict built it: nothing dropped, nothing reordered.
SelectNothing(df, columns) == df

\* df[columns]: the listed columns, in the order listed.
Select(df, columns) ==
    [cols |-> columns,
     rows |-> [r \in 1..Len(df.rows) |-> [c \in Range(columns) |-> df.rows[r][c]]]]

\* pd.concat(tables) of tables with the same columns: the rows, table by table.
RECURSIVE ConcatRows(_)
ConcatRows(tables) ==
    IF tables = <<>> THEN <<>>
    ELSE Head(tables).rows \o ConcatRows(Tail(tables))

Concat(tables) == [cols |-> tables[1].cols, rows |-> ConcatRows(tables)]

(***************************************************************************)
(* ScalpyrPro._send_request, after the transport has answered `response`:   *)
(* the exception it raises, or the response with the resource type's list   *)
(* replaced by the projected table.                                         *)
(***************************************************************************)
Raise(exc, arg) == [exc |-> exc, arg |-> arg, value |-> NoneValue]

Return(value) == [exc |-> "none", arg |-> NoneValue, value |-> value]

\* ApiException raised without the response.
MissingKeyBare(response) == Raise("ApiException", NoneValue)

\* Line 98: raise ApiException(response)
MissingKey(response) == Raise("ApiException", response)

Project(structure, rtype, response) ==
    IF rtype \notin DOMAIN response
    THEN MissingKey(response)
    ELSE IF rtype \notin DOMAIN structure
    THEN \* getattr raises AttributeError, which `except KeyError` lets through
         Raise("AttributeError", NoneValue)
    ELSE LET columns == structure[rtype]
             df == FromDict(response[rtype])
         IN  IF ~Selectable(df, columns)
             THEN Raise("KeyError", NoneValue)
             ELSE Return([response EXCEPT ![rtype] = Select(df, columns)])

\* _send_request as a whole: the transport's exception passes through.
SendRequest(structure, rtype, answer) ==
    IF answer.raised THEN Raise("TransportError", NoneValue)
    ELSE Project(structure, rtype, answer.response)

(***************************************************************************)
(* The arguments the callers pass.                                          *)
(***************************************************************************)
JoinFields == {"performers", "venue", "events"}

IdLists == {<<"7">>, <<"9", "7">>}

\* event_type: <<>> when not given, else the type in a one-element tuple.
EventTypes == {NoneValue, <<"concert">>}

SearchNames == {"Garden", "Arena"}

\* sep.join(strings)
RECURSIVE Join(_, _)
Join(strings, sep) ==
    IF strings = <<>> THEN ""
    ELSE IF Len(strings) = 1 THEN strings[1]
    ELSE strings[1] \o sep \o Join(Tail(strings), sep)

\* math.ceil(total / per_page), per_page > 0
Ceil(total, perPage) == (total + perPage - 1) \div perPage

\* The page count taken from the page size the caller asked for.
TotalPagesFromRequested(meta, requested) == Ceil(meta.total, requested)

\* Lines 189-191: the page count, from the meta of page 1; `requested` is the
\* per_page the caller passed.
TotalPages(meta, requested) == Ceil(meta.total, meta.per_page)

\* lookup_field of get_events_by
LookupField(rtype) == IF rtype = "events" THEN "id" ELSE rtype \o ".id"

\* The dict _get_events_by builds.
EventsRequest(lookup_field, idString, perPage, pageNum, etype) ==
    LET req == (lookup_field :> idString) @@ ("per_page" :> perPage)
               @@ ("page" :> pageNum)
    IN  IF etype = NoneValue THEN req ELSE ("type" :> etype[1]) @@ req

\* The per_page the request of page pageNum carries: the loop of
\* get_events_by passes its local per_page, which line 190 has reassigned.
PagePerPage(pageNum) == IF pageNum = 1 THEN arg_per_page ELSE per_page

\* Scalpyr.get_events(req) and Scalpyr.get_venues(req): _send_request for
\* the kind; get_venues hands the caller the venues table.
GetEvents(answer) == SendRequest(sg_data_structure, "events", answer)

GetVenues(answer) ==
    LET r == SendRequest(sg_data_structure, "venues", answer)
    IN  IF r.exc = "none" THEN Return(r.value["venues"]) ELSE r

(***************************************************************************)
(* Initial states: the object is constructed and one public call begins.    *)
(***************************************************************************)
Init ==
    /\ op \in {"_send_request", "get_events_by", "get_venue_ids"}
    /\ sg_data_structure \in DataStructures
    /\ pc = "start"
    /\ req_type \in CASE op = "_send_request" -> RequestTypes
                      [] op = "get_events_by" -> JoinFields
                      [] OTHER -> {""}
    /\ ids \in IF op = "get_events_by" THEN IdLists ELSE {<<>>}
    /\ arg_per_page \in IF op = "get_events_by" THEN 1..MaxPerPage ELSE {0}
    /\ event_type \in IF op = "get_events_by" THEN EventTypes ELSE {NoneValue}
    /\ venues \in IF op = "get_venue_ids" THEN SeqsUpTo(SearchNames, MaxNames)
                  ELSE {<<>>}
    /\ per_page = 0 /\ total_pages = 0 /\ page_num = 0
    /\ events_tables = <<>> /\ resp = NoneValue
    /\ idx = 1
    /\ all_venue_data = <<>> /\ venue_search_failed = <<>>
    /\ stdout = <<>>
    /\ outcome = "running" /\ exc_arg = NoneValue /\ result = NoneValue
    /\ requests = <<>> /\ fetched = <<>> /\ searches = <<>>

argVars == <<sg_data_structure, op, req_type, ids, arg_per_page, event_type, venues>>
pagerVars == <<per_page, total_pages, page_num, events_tables, resp>>
venueVars == <<idx, all_venue_data, venue_search_failed, stdout, searches>>

\* The exception swallowed: the call returns what it has.
RaisedSwallowed(r) ==
    /\ outcome' = "returned"
    /\ exc_arg' = NoneValue
    /\ pc' = "done"

\* The call ends by raising r's exception.
Raised(r) ==
    /\ outcome' = r.exc
    /\ exc_arg' = r.arg
    /\ pc' = "done"

(***************************************************************************)
(* _send_request called directly (lines 85-108).                            *)
(***************************************************************************)
SendRequestCall ==
    /\ op = "_send_request" /\ pc = "start"
    /\ \E answer \in TransportOutcomes(req_type, 1, NoneValue) :
         LET r == SendRequest(sg_data_structure, req_type, answer)
         IN  /\ requests' = Append(requests, [req_type |-> req_type, req_args |-> NoneValue])
             /\ fetched' = Append(fetched, answer)
             /\ IF r.exc # "none"
                THEN Raised(r) /\ UNCHANGED result
                ELSE /\ result' = r.value
                     /\ outcome' = "returned"
                     /\ pc' = "done"
                     /\ UNCHANGED exc_arg
    /\ UNCHANGED <<argVars, pagerVars, venueVars>>

(***************************************************************************)
(* get_events_by (lines 161-202) with _get_events_by (lines 204-211).       *)
(***************************************************************************)
\* One call of _get_events_by for page pageNum, answered by `answer`.
PageRequest(pageNum) ==
    [req_type |-> "events",
     req_args |-> EventsRequest(LookupField(req_type), Join(ids, ","),
                                PagePerPage(pageNum), pageNum, event_type)]

\* Lines 177-193: the first page, and the page count from its meta.
FirstPage ==
    /\ op = "get_events_by" /\ pc = "start"
    /\ \E answer \in TransportOutcomes("events", 1, NoneValue) :
         LET r == GetEvents(answer)
         IN  /\ requests' = Append(requests, PageRequest(1))
             /\ fetched' = Append(fetched, answer)
             /\ IF r.exc # "none"
                THEN Raised(r) /\ UNCHANGED pagerVars
                ELSE /\ resp' = r.value
                     /\ per_page' = r.value["meta"].per_page
                     /\ total_pages' = TotalPages(r.value["meta"], arg_per_page)
                     /\ events_tables' = <<r.value["events"]>>
                     /\ page_num' = 2
                     /\ pc' = "loop"
                     /\ UNCHANGED <<outcome, exc_arg>>
    /\ UNCHANGED <<argVars, venueVars, result>>

\* Lines 194-199: one turn of the while loop.
NextPage ==
    /\ op = "get_events_by" /\ pc = "loop"
    /\ page_num <= total_pages
    /\ \E answer \in TransportOutcomes("events", page_num, resp["meta"]) :
         LET r == GetEvents(answer)
         IN  /\ requests' = Append(requests, PageRequest(page_num))
             /\ fetched' = Append(fetched, answer)
             /\ IF r.exc # "none"
                THEN Raised(r) /\ UNCHANGED <<resp, events_tables, page_num>>
                ELSE /\ resp' = r.value
                     /\ events_tables' = Append(events_tables, r.value["events"])
                     /\ page_num' = page_num + 1
                     /\ UNCHANGED <<pc, outcome, exc_arg>>
    /\ UNCHANGED <<argVars, venueVars, per_page, total_pages, result>>

\* Lines 201-202: the loop is over.
ReturnEvents ==
    /\ op = "get_events_by" /\ pc = "loop"
    /\ page_num > total_pages
    /\ result' = [resp EXCEPT !["events"] = Concat(events_tables)]
    /\ outcome' = "returned"
    /\ pc' = "done"
    /\ UNCHANGED <<argVars, pagerVars, venueVars, exc_arg, requests, fetched>>

(***************************************************************************)
(* get_venue_ids (lines 110-138).                                           *)
(***************************************************************************)
\* No filter on num_upcoming_events.
UpcomingAll(venue_data) == venue_data

\* Line 128: venue_data.loc[venue_data.num_upcoming_events > 0]
Upcoming(venue_data) ==
    [cols |-> venue_data.cols,
     rows |-> SelectSeq(venue_data.rows, LAMBDA r : r["num_upcoming_events"] > 0)]

\* Lines 129-132: the columns venue, venue_id and searched_venue.
VenueRows(venue_data, venue) ==
    [cols |-> <<"venue", "venue_id", "searched_venue">>,
     rows |-> [i \in 1..Len(venue_data.rows) |->
                [venue |-> venue_data.rows[i]["name"],
                 venue_id |-> venue_data.rows[i]["id"],
                 searched_venue |-> venue]]]

\* A concatenation that answers an empty list with an empty table.
ConcatVenuesLenient(tables) ==
    Return(IF tables = <<>>
           THEN [cols |-> <<"venue", "venue_id", "searched_venue">>, rows |-> <<>>]
           ELSE Concat(tables))

\* Line 138: pd.concat raises ValueError on an empty list.
ConcatVenues(tables) ==
    IF tables = <<>> THEN Raise("ValueError", NoneValue)
    ELSE Return(Concat(tables))

\* Lines 134-136: the print of the names not found.
Printed(failed) ==
    IF Len(failed) > 0
    THEN <<"Could not find venues: \n" \o Join(failed, "\n")>>
    ELSE <<>>

\* Lines 118-133: one turn of the for loop.  Both modelled structures
\* declare the columns id, name and num_upcoming_events the loop reads.
SearchVenue ==
    /\ op = "get_venue_ids" /\ pc = "start"
    /\ idx <= Len(venues)
    /\ \E answer \in TransportOutcomes("venues", 1, NoneValue) :
         LET venue == venues[idx]
             r == GetVenues(answer)
         IN  /\ requests' = Append(requests, [req_type |-> "venues",
                                              req_args |-> ("name" :> venue)])
             /\ searches' = Append(searches, [name |-> venue, exc |-> r.exc,
                                              found |-> r.value])
             /\ IF r.exc = "ApiException"
                THEN /\ venue_search_failed' = Append(venue_search_failed, venue)
                     /\ idx' = idx + 1
                     /\ UNCHANGED <<all_venue_data, pc, outcome, exc_arg>>
                ELSE IF r.exc # "none"
                THEN /\ Raised(r)
                     /\ UNCHANGED <<all_venue_data, venue_search_failed, idx>>
                ELSE /\ all_venue_data' =
                          IF Len(r.value.rows) > 0
                          THEN Append(all_venue_data,
                                      VenueRows(Upcoming(r.value), venue))
                          ELSE all_venue_data
                     /\ idx' = idx + 1
                     /\ UNCHANGED <<venue_search_failed, pc, outcome, exc_arg>>
    /\ UNCHANGED <<argVars, pagerVars, stdout, result, fetched>>

\* Lines 134-138: the loop is over.
ReturnVenues ==
    /\ op = "get_venue_ids" /\ pc = "start"
    /\ idx > Len(venues)
    /\ stdout' = stdout \o Printed(venue_search_failed)
    /\ LET r == ConcatVenues(all_venue_data)
       IN  /\ outcome' = IF r.exc = "none" THEN "returned" ELSE r.exc
           /\ exc_arg' = r.arg
           /\ result' = r.value
    /\ pc' = "done"
    /\ UNCHANGED <<argVars, pagerVars, idx, all_venue_data, venue_search_failed,
                   searches, requests, fetched>>

Next ==
    \/ SendRequestCall
    \/ FirstPage
    \/ NextPage
    \/ ReturnEvents
    \/ SearchVenue
    \/ ReturnVenues

Spec == Init /\ [][Next]_vars

(***************************************************************************)
(* Properties.                                                              *)
(***************************************************************************)
\* The least n with n * perPage >= total: ceil(total / perPage).
PagesNeeded(total, perPage) ==
    CHOOSE n \in 0..total : n * perPage >= total /\ (n = 0 \/ (n - 1) * perPage < total)

\* The meta block and the record list of the transport's k-th answer.
MetaOf(k) == fetched[k].response["meta"]
HasList(k, rtype) == ~fetched[k].raised /\ rtype \in DOMAIN fetched[k].response

RECURSIVE RowsBefore(_, _)
RowsBefore(tables, p) ==
    IF p = 1 THEN 0 ELSE RowsBefore(tables, p - 1) + Len(tables[p - 1].rows)

\* rows is the rows of tables[1], then those of tables[2], ..., each table's
\* rows in their own order.
InPageOrder(rows, tables) ==
    /\ Len(rows) = RowsBefore(tables, Len(tables) + 1)
    /\ \A p \in 1..Len(tables) : \A k \in 1..Len(tables[p].rows) :
         rows[RowsBefore(tables, p) + k] = tables[p].rows[k]

\* C1: when page 1 reports total > 0 and per_page > 0, get_events_by asks
\* for pages 1, 2, ..., N one after the other, N = ceil(total / per_page)
\* with the per_page the server reported (not the one the caller asked
\* for): it never asks for more, a call that returns has asked for exactly
\* N, and the events table it returns is the projected tables of pages
\* 1..N, in page order, each page's rows in their order.
PagerFetchesEveryPageInOrder ==
    (op = "get_events_by" /\ Len(fetched) >= 1 /\ HasList(1, "events")
        /\ MetaOf(1).total > 0 /\ MetaOf(1).per_page > 0) =>
      LET N == PagesNeeded(MetaOf(1).total, MetaOf(1).per_page)
      IN  /\ Len(requests) <= N
          /\ \A i \in 1..Len(requests) :
               requests[i].req_type = "events" /\ requests[i].req_args["page"] = i
          /\ outcome = "returned" =>
               /\ Len(requests) = N
               /\ Len(events_tables) = N
               /\ \A p \in 1..N :
                    events_tables[p] = GetEvents(fetched[p]).value["events"]
               /\ result["events"].cols = sg_data_structure.events
               /\ InPageOrder(result["events"].rows, events_tables)

\* C1 witness: a call that returned after three pages with different
\* tables, the server having reported another per_page than the caller's.
PagerThreePagesReturned ==
    /\ op = "get_events_by" /\ outcome = "returned"
    /\ Len(requests) = 3
    /\ MetaOf(1).per_page # arg_per_page
    /\ PagesNeeded(MetaOf(1).total, arg_per_page) # 3
    /\ events_tables[1] # events_tables[2]
    /\ Len(result["events"].rows) >= 4

\* C2: get_events_by whose page 1 reports total = 0 with an empty events
\* list returns a result with zero rows after exactly one request, without
\* an error.
TotalZeroReturnsNoRows ==
    (op = "get_events_by" /\ pc = "done" /\ HasList(1, "events")
        /\ fetched[1].response["events"] = <<>> /\ MetaOf(1).total = 0) =>
      /\ outcome = "returned"
      /\ Len(result["events"].rows) = 0
      /\ Len(requests) = 1

\* The filter C10 says page i carries.
CallerFilter(i) ==
    LET key == CASE req_type = "events" -> "id"
                 [] req_type = "venue" -> "venue.id"
                 [] req_type = "performers" -> "performers.id"
        filter == (key :> Join(ids, ",")) @@ ("per_page" :> arg_per_page)
                  @@ ("page" :> i)
    IN  IF event_type = NoneValue THEN filter
        ELSE filter @@ ("type" :> event_type[1])

\* C10: every page request i of get_events_by carries the filter
\* {lookup field: the ids joined by commas, per_page: the page size the
\* caller asked for, page: i}, with type exactly when a type was given.
RequestsCarryCallerFilter ==
    op = "get_events_by" =>
      \A i \in 1..Len(requests) : requests[i].req_args = CallerFilter(i)

\* The fields of a raw record, and whether no record of a list has field c.
FieldsOf(rec) == {rec[j][1] : j \in 1..Len(rec)}
Unresolvable(c, recs) == \A k \in 1..Len(recs) : c \notin FieldsOf(recs[k])

\* The value a raw record holds for field c.
ValueOf(rec, c) == LET j == CHOOSE j \in 1..Len(rec) : rec[j][1] = c IN rec[j][2]

\* C3: whenever _send_request returns, for a declared kind whose key the
\* raw response holds, the table it puts under the key has exactly the
\* configured columns of the kind in the configured order, one row per raw
\* record in the records' order, each row holding the record's values for
\* those columns and nothing else, whatever other fields the records carry.
ProjectKeepsConfiguredColumns ==
    (op = "_send_request" /\ outcome = "returned") =>
      LET recs == fetched[1].response[req_type]
          table == result[req_type]
          columns == sg_data_structure[req_type]
      IN  /\ table.cols = columns
          /\ Len(table.rows) = Len(recs)
          /\ \A k \in 1..Len(recs) :
               /\ DOMAIN table.rows[k] = Range(columns)
               /\ \A c \in Range(columns) :
                    c \in FieldsOf(recs[k]) => table.rows[k][c] = ValueOf(recs[k], c)
          /\ \A key \in DOMAIN result \ {req_type} :
               result[key] = fetched[1].response[key]

\* C3 witness: a returned table of two rows built from records that carry
\* the field "links", which no column list names, in another field order
\* than the configured one.
ProjectedWithExtraFields ==
    /\ op = "_send_request" /\ outcome = "returned"
    /\ Len(result[req_type].rows) = 2
    /\ \A k \in 1..2 : "links" \in FieldsOf(fetched[1].response[req_type][k])
    /\ Keys(fetched[1].response[req_type][1]) # <<"links">> \o sg_data_structure[req_type]
    /\ sg_data_structure = CallerDataStructure

UnresolvableColumnRaisesApiException ==
    (op = "_send_request" /\ pc = "done" /\ HasList(1, req_type)
        /\ req_type \in DOMAIN sg_data_structure
        /\ Len(fetched[1].response[req_type]) > 0
        /\ \E c \in Range(sg_data_structure[req_type]) :
             Unresolvable(c, fetched[1].response[req_type])) =>
      outcome = "ApiException"

\* C9: _send_request fails with ApiException when the requested kind is a
\* key of the raw response but not a kind the data structure declares.
UndeclaredKindRaisesApiException ==
    (op = "_send_request" /\ pc = "done" /\ HasList(1, req_type)
        /\ req_type \notin DOMAIN sg_data_structure) =>
      outcome = "ApiException"

\* Whether the transport's k-th answer makes the fetch of events fail, and
\* the error it fails with: the transport's own, ApiException for a response
\* without the events key, KeyError for a projection that fails.
PageError(k) ==
    IF fetched[k].raised THEN "TransportError"
    ELSE IF "events" \notin DOMAIN fetched[k].response THEN "ApiException"
    ELSE IF \E c \in Range(sg_data_structure.events) :
              Unresolvable(c, fetched[k].response["events"]) THEN "KeyError"
    ELSE "none"

\* C5: in get_events_by, when the fetch of page k fails, the call ends with
\* that error: it returns nothing (the rows of pages 1..k-1 included), page
\* k is requested once and no page after k is requested.
PageFailureAbortsPager ==
    op = "get_events_by" =>
      \A k \in 1..Len(fetched) :
        PageError(k) # "none" =>
          /\ pc = "done"
          /\ outcome = PageError(k)
          /\ result = NoneValue
          /\ Len(requests) = k
          /\ \A i \in 1..k : requests[i].req_args["page"] = i

\* C5 witness: page 2 fails after page 1 brought rows.
SecondPageFailed ==
    /\ op = "get_events_by" /\ Len(fetched) = 2
    /\ PageError(2) = "KeyError"
    /\ Len(events_tables) = 1 /\ Len(events_tables[1].rows) > 0
    /\ total_pages = 3

\* The searches of get_venue_ids that ended in `exc`, as positions.
SearchesEnding(exc) == {i \in 1..Len(searches) : searches[i].exc = exc}

\* The venues search i found that have upcoming events, as positions.
KeptOf(i) ==
    {k \in 1..Len(searches[i].found.rows) :
        searches[i].found.rows[k]["num_upcoming_events"] > 0}

\* The row get_venue_ids owes venue k of search i.
RowOf(i, k) ==
    [venue |-> searches[i].found.rows[k]["name"],
     venue_id |-> searches[i].found.rows[k]["id"],
     searched_venue |-> searches[i].name]

RECURSIVE CountKept(_)
CountKept(n) == IF n = 0 THEN 0
                ELSE CountKept(n - 1)
                     + (IF searches[n].exc = "none" THEN Cardinality(KeptOf(n)) ELSE 0)

\* The names in `names` whose position is in `at`, in order.
RECURSIVE NamesAt(_, _, _)
NamesAt(names, at, i) ==
    IF i > Len(names) THEN <<>>
    ELSE (IF i \in at THEN <<names[i]>> ELSE <<>>) \o NamesAt(names, at, i + 1)

\* C6: get_venue_ids searches the names in order; a name whose search
\* raises ApiException goes to the failure log and the loop goes on with
\* the next name; the rows returned are exactly, search by search, the
\* venues with num_upcoming_events > 0 of the searches that succeeded, each
\* as (venue name, venue id, searched name); a search that failed gives no
\* row, so a name that never succeeded is in no row.
VenueFailuresAreSkipped ==
    op = "get_venue_ids" =>
      /\ \A i \in 1..Len(searches) : searches[i].name = venues[i]
      /\ venue_search_failed =
           NamesAt(venues, SearchesEnding("ApiException"), 1)
      /\ \A i \in SearchesEnding("ApiException") :
           i < Len(searches) \/ idx = i + 1
      /\ outcome \in {"returned", "ValueError"} => Len(searches) = Len(venues)
      /\ outcome = "returned" =>
           /\ result.cols = <<"venue", "venue_id", "searched_venue">>
           /\ Len(result.rows) = CountKept(Len(searches))
           /\ \A j \in 1..Len(result.rows) :
                \E i \in SearchesEnding("none") : \E k \in KeptOf(i) :
                  result.rows[j] = RowOf(i, k)
           /\ \A i \in SearchesEnding("none") : \A k \in KeptOf(i) :
                \E j \in 1..Len(result.rows) : result.rows[j] = RowOf(i, k)
           /\ \A j \in 1..Len(result.rows) :
                \E i \in SearchesEnding("none") :
                  venues[i] = result.rows[j].searched_venue

\* C6 witness: the first name failed, the second was found with a venue
\* that has upcoming events and one that has none, and the call returned
\* the one row.
FailedThenFound ==
    /\ op = "get_venue_ids" /\ outcome = "returned"
    /\ venues = <<"Garden", "Arena">>
    /\ searches[1].exc = "ApiException" /\ searches[2].exc = "none"
    /\ Len(searches[2].found.rows) = 2
    /\ Len(result.rows) = 1
    /\ result.rows[1].venue # result.rows[1].searched_venue
    /\ venue_search_failed = <<"Garden">>

\* C7: when every name's search fails, get_venue_ids ends in the ValueError
\* of pd.concat on an empty list, the failed names printed; when a name is
\* found with venues and every venue found is dropped for having no
\* upcoming events, it returns a table with zero rows instead.
AllFailedIsNotZeroRows ==
    (op = "get_venue_ids" /\ pc = "done" /\ outcome \in {"returned", "ValueError"}) =>
      /\ SearchesEnding("ApiException") = 1..Len(venues) =>
           /\ outcome = "ValueError"
           /\ result = NoneValue
           /\ Len(venues) > 0 =>
                stdout = <<"Could not find venues: \n" \o Join(venues, "\n")>>
      /\ (/\ \E i \in SearchesEnding("none") : Len(searches[i].found.rows) > 0
          /\ \A i \in SearchesEnding("none") : KeptOf(i) = {}) =>
           /\ outcome = "returned"
           /\ result.rows = <<>>
           /\ result.cols = <<"venue", "venue_id", "searched_venue">>

\* C7 witness: two names, both failed, ValueError after the print.
EveryNameFailed ==
    /\ op = "get_venue_ids" /\ outcome = "ValueError"
    /\ Len(venues) = 2 /\ venues[1] # venues[2]
    /\ SearchesEnding("ApiException") = {1, 2}
    /\ stdout # <<>>

====
